---- MODULE Spec2Model ----
(***************************************************************************)
(* Model of src/Model/CalculateDVHs.py (OnkoDICOM): the parallel DVH       *)
(* engine (calc_dvhs / multi_get_dvhs), the histogram normalizer           *)
(* (converge_to_zero_dvh) and the tabular exporter (dvh2csv).              *)
(*                                                                         *)
(* Three state machines share the module, each with its own               *)
(* specification; the variables of the other two stay at their idle       *)
(* values:                                                                 *)
(*   Spec / FairSpec   calc_dvhs with its worker processes                 *)
(*   SpecNormalizer    converge_to_zero_dvh, applied once and then to its  *)
(*                     own output                                          *)
(*   SpecExporter      dvh2csv                                             *)
(***************************************************************************)
EXTENDS Integers, Sequences, FiniteSets, TLC

\* ------------------------------------------------------------------ bounds
\* ROI numbers offered to calc_dvhs are 1..MaxRois.
MaxRois == 2
\* Non-default dose limits offered to calc_dvhs are 1..MaxDoseLimit.
MaxDoseLimit == 1
\* ROI numbers offered to converge_to_zero_dvh are 1..MaxNormRois.
MaxNormRois == 2
\* Histograms offered to converge_to_zero_dvh have 0..MaxBins bins.
MaxBins == 2
\* ROI numbers offered to dvh2csv are 1..MaxCsvRois.
MaxCsvRois == 2
\* relative_volume.counts of the histograms offered to dvh2csv has
\* 0..MaxDoseLen entries.
MaxDoseLen == 25

VARIABLES
    \* ---- calc_dvhs: inputs
    dict_roi,       \* the ROI numbers that are the keys of dict_roi
    key_order,      \* iteration order of dict_roi (a permutation of its keys)
    dose_limit,     \* the dose_limit argument: <<>> is None, <<v>> is v
    raising,        \* the ROI numbers for which dvhcalc.get_dvh raises
    \* ---- calc_dvhs: locals and processes
    pc,             \* coordinator position: "list","start","get","join","returned"
    roi_list,       \* roi_list
    processes,      \* processes: per process the args it was created with
    wstate,         \* per process: "running","computed","put","exited","failed"
    wdvh,           \* per process: the local dict dvh of multi_get_dvhs
    queue,          \* multiprocessing.Queue contents, oldest first
    dict_dvh,       \* dict_dvh
    nget,           \* completed iterations of the receive loop
    njoin,          \* completed iterations of the join loop
    nput,           \* per process: number of queue.put calls completed
    arrived,        \* the ROI numbers received so far, in order of arrival
    \* ---- converge_to_zero_dvh
    n_in,           \* its argument dict_dvh: roi -> [bincenters, counts]
    n_todo,         \* keys the for loop has not visited yet
    res,            \* res
    n_pc,           \* "idle","loop","done","raised"
    n_pass,         \* 1: first application, 2: applied to its own output
    res1,           \* the result of the first application
    \* ---- dvh2csv
    c_in,           \* its argument dict_dvh: roi -> [name, volume, dose], where
                    \* dose is relative_volume.counts; numbers are in thousandths
    c_todo,         \* keys the for loop has not visited yet, in order
    dvh_csv_list,   \* dvh_csv_list
    max_roi_dose,   \* max_roi_dose
    csv_header,     \* csv_header
    table,          \* rows of the written table
    c_pc            \* "idle","loop","header","frame","done","raised"

engineVars == <<dict_roi, key_order, dose_limit, raising, pc, roi_list,
                processes, wstate, wdvh, queue, dict_dvh, nget, njoin, nput,
                arrived>>
normVars == <<n_in, n_todo, res, n_pc, n_pass, res1>>
csvVars == <<c_in, c_todo, dvh_csv_list, max_roi_dose, csv_header, table, c_pc>>
vars == <<engineVars, normVars, csvVars>>

\* ----------------------------------------------------------------- helpers
\* A Python dict with no key.
EmptyDict == <<>>

\* dict.update: keys of u are added to d, overwriting.
DictUpdate(d, u) ==
    [k \in (DOMAIN d) \cup (DOMAIN u) |-> IF k \in DOMAIN u THEN u[k] ELSE d[k]]

\* All orders in which the keys S can be iterated.
Orders(S) ==
    {s \in [1..Cardinality(S) -> S] : \A a, b \in DOMAIN s : a # b => s[a] # s[b]}

\* The elements of a set of at most one element, as a sequence.
SetToSeq(S) == IF S = {} THEN <<>> ELSE <<CHOOSE x \in S : TRUE>>

\* Python's None, and a value v, as an optional.
None == <<>>
Some(v) == <<v>>

NormIdle ==
    /\ n_in = EmptyDict /\ n_todo = {} /\ res = EmptyDict
    /\ n_pc = "idle" /\ n_pass = 0 /\ res1 = EmptyDict

CsvIdle ==
    /\ c_in = EmptyDict /\ c_todo = <<>> /\ dvh_csv_list = <<>>
    /\ max_roi_dose = 0 /\ csv_header = <<>> /\ table = <<>> /\ c_pc = "idle"

EngineIdle ==
    /\ dict_roi = {} /\ key_order = <<>> /\ dose_limit = None /\ raising = {}
    /\ pc = "idle" /\ roi_list = <<>> /\ processes = <<>> /\ wstate = <<>>
    /\ wdvh = <<>> /\ queue = <<>> /\ dict_dvh = EmptyDict
    /\ nget = 0 /\ njoin = 0 /\ nput = <<>> /\ arrived = <<>>

\* ------------------------------------------------- the parallel DVH engine
\* dvhcalc.get_dvh is an external, deterministic function: its result is
\* modelled as the term of its arguments, so that two calls agree exactly
\* when their arguments do.
get_dvh(rtss, dose, roi, limit) ==
    [rtss |-> rtss, dose |-> dose, roi |-> roi, dose_limit |-> limit]

\* The positional args of multiprocessing.Process in calc_dvhs,
\* args=(rtss, rtdose, roi_list[i], queue): dose_limit is not among them, so
\* multi_get_dvhs runs with its default dose_limit=None.
ProcessArgs(roi, limit) ==
    [rtss |-> "rtss", dose |-> "rtdose", roi |-> roi, dose_limit |-> None]

Init ==
    /\ dict_roi \in SUBSET (1..MaxRois)
    /\ key_order \in Orders(dict_roi)
    /\ dose_limit \in {None} \cup {Some(v) : v \in 1..MaxDoseLimit}
    /\ raising \in SUBSET dict_roi
    /\ pc = "list"
    /\ roi_list = <<>>
    /\ processes = <<>>
    /\ wstate = <<>>
    /\ wdvh = <<>>
    /\ queue = <<>>
    /\ dict_dvh = EmptyDict
    /\ nget = 0
    /\ njoin = 0
    /\ nput = <<>>
    /\ arrived = <<>>
    /\ NormIdle
    /\ CsvIdle

\* calc_dvhs lines 60-70: the queue, the empty collections, and roi_list
\* built from the keys of dict_roi in iteration order.
BuildRoiList ==
    /\ pc = "list"
    /\ roi_list' = key_order
    /\ pc' = "start"
    /\ UNCHANGED <<dict_roi, key_order, dose_limit, raising, processes, wstate,
                   wdvh, queue, dict_dvh, nget, njoin, nput, arrived>>
    /\ UNCHANGED <<normVars, csvVars>>

\* calc_dvhs lines 73-77: one iteration of the allocation loop creates and
\* starts the process for roi_list[i].
StartProcess ==
    /\ pc = "start"
    /\ Len(processes) < Len(roi_list)
    /\ LET i == Len(processes) + 1 IN
        /\ processes' = Append(processes, ProcessArgs(roi_list[i], dose_limit))
        /\ wstate' = Append(wstate, "running")
        /\ wdvh' = Append(wdvh, EmptyDict)
        /\ nput' = Append(nput, 0)
    /\ UNCHANGED <<dict_roi, key_order, dose_limit, raising, pc, roi_list,
                   queue, dict_dvh, nget, njoin, arrived>>
    /\ UNCHANGED <<normVars, csvVars>>

\* The allocation loop ends after len(roi_list) iterations.
StartDone ==
    /\ pc = "start"
    /\ Len(processes) = Len(roi_list)
    /\ pc' = "get"
    /\ UNCHANGED <<dict_roi, key_order, dose_limit, raising, roi_list, processes,
                   wstate, wdvh, queue, dict_dvh, nget, njoin, nput, arrived>>
    /\ UNCHANGED <<normVars, csvVars>>

\* A worker that swallows the exception of get_dvh and deposits the dict it
\* has, which is still empty.
WorkerResultSwallow(w) ==
    LET a == processes[w] IN
    IF a.roi \in raising
        THEN [state |-> "computed", dvh |-> EmptyDict]
        ELSE [state |-> "computed",
              dvh |-> (a.roi :> get_dvh(a.rtss, a.dose, a.roi, a.dose_limit))]

\* multi_get_dvhs lines 41-43: dvh = {}; dvh[roi] = get_dvh(...). When
\* get_dvh raises, the exception ends the process before queue.put.
WorkerResult(w) ==
    LET a == processes[w] IN
    IF a.roi \in raising
        THEN [state |-> "failed", dvh |-> EmptyDict]
        ELSE [state |-> "computed",
              dvh |-> (a.roi :> get_dvh(a.rtss, a.dose, a.roi, a.dose_limit))]

WorkerCompute(w) ==
    /\ w \in DOMAIN wstate
    /\ wstate[w] = "running"
    /\ wstate' = [wstate EXCEPT ![w] = WorkerResult(w).state]
    /\ wdvh' = [wdvh EXCEPT ![w] = WorkerResult(w).dvh]
    /\ UNCHANGED <<dict_roi, key_order, dose_limit, raising, pc, roi_list,
                   processes, queue, dict_dvh, nget, njoin, nput, arrived>>
    /\ UNCHANGED <<normVars, csvVars>>

\* multi_get_dvhs line 45: queue.put(dvh).
WorkerPut(w) ==
    /\ w \in DOMAIN wstate
    /\ wstate[w] = "computed"
    /\ queue' = Append(queue, wdvh[w])
    /\ wstate' = [wstate EXCEPT ![w] = "put"]
    /\ nput' = [nput EXCEPT ![w] = @ + 1]
    /\ UNCHANGED <<dict_roi, key_order, dose_limit, raising, pc, roi_list,
                   processes, wdvh, dict_dvh, nget, njoin, arrived>>
    /\ UNCHANGED <<normVars, csvVars>>

\* multi_get_dvhs returns and the process ends.
WorkerExit(w) ==
    /\ w \in DOMAIN wstate
    /\ wstate[w] = "put"
    /\ wstate' = [wstate EXCEPT ![w] = "exited"]
    /\ UNCHANGED <<dict_roi, key_order, dose_limit, raising, pc, roi_list,
                   processes, wdvh, queue, dict_dvh, nget, njoin, nput, arrived>>
    /\ UNCHANGED <<normVars, csvVars>>

\* A receive loop that runs one time too few.
NumReceivesShort == Len(processes) - 1

\* The receive loop, "for proc in processes", runs once per process.
NumReceives == Len(processes)

\* An aggregation that files each histogram under the ROI whose turn it is in
\* roi_list, instead of under the key it arrives with.
ReceivedByArrival(d, dvh) ==
    DictUpdate(d, [k \in {roi_list[nget + 1]} \cap {r \in 1..MaxRois : DOMAIN dvh # {}}
                     |-> dvh[CHOOSE r \in DOMAIN dvh : TRUE]])

\* calc_dvhs line 83: dict_dvh.update(dvh).
Received(d, dvh) == DictUpdate(d, dvh)

\* calc_dvhs lines 81-83: one iteration of the receive loop; queue.get()
\* blocks while the queue is empty.
Receive ==
    /\ pc = "get"
    /\ nget < NumReceives
    /\ queue # <<>>
    /\ dict_dvh' = Received(dict_dvh, Head(queue))
    /\ queue' = Tail(queue)
    /\ nget' = nget + 1
    /\ arrived' = arrived \o SetToSeq(DOMAIN Head(queue))
    /\ UNCHANGED <<dict_roi, key_order, dose_limit, raising, pc, roi_list,
                   processes, wstate, wdvh, njoin, nput>>
    /\ UNCHANGED <<normVars, csvVars>>

ReceiveDone ==
    /\ pc = "get"
    /\ nget >= NumReceives
    /\ pc' = "join"
    /\ UNCHANGED <<dict_roi, key_order, dose_limit, raising, roi_list, processes,
                   wstate, wdvh, queue, dict_dvh, nget, njoin, nput, arrived>>
    /\ UNCHANGED <<normVars, csvVars>>

\* A join that does not wait.
JoinNoWait(w) == TRUE

\* proc.join() returns once the process has ended, normally or by an
\* uncaught exception.
JoinReturns(w) == wstate[w] \in {"exited", "failed"}

\* calc_dvhs lines 86-87: one iteration of the join loop.
Join ==
    /\ pc = "join"
    /\ njoin < Len(processes)
    /\ JoinReturns(njoin + 1)
    /\ njoin' = njoin + 1
    /\ UNCHANGED <<dict_roi, key_order, dose_limit, raising, pc, roi_list,
                   processes, wstate, wdvh, queue, dict_dvh, nget, nput, arrived>>
    /\ UNCHANGED <<normVars, csvVars>>

\* calc_dvhs line 89: return dict_dvh.
Return ==
    /\ pc = "join"
    /\ njoin = Len(processes)
    /\ pc' = "returned"
    /\ UNCHANGED <<dict_roi, key_order, dose_limit, raising, roi_list, processes,
                   wstate, wdvh, queue, dict_dvh, nget, njoin, nput, arrived>>
    /\ UNCHANGED <<normVars, csvVars>>

Coordinator ==
    \/ BuildRoiList
    \/ StartProcess
    \/ StartDone
    \/ Receive
    \/ ReceiveDone
    \/ Join
    \/ Return

Worker(w) ==
    \/ WorkerCompute(w)
    \/ WorkerPut(w)
    \/ WorkerExit(w)

Next ==
    \/ Coordinator
    \/ \E w \in 1..MaxRois : Worker(w)

Spec == Init /\ [][Next]_vars

\* Every started process and the coordinator are scheduled by the operating
\* system: a step that stays possible is eventually taken.
FairSpec ==
    /\ Init
    /\ [][Next]_vars
    /\ WF_vars(Coordinator)
    /\ \A w \in 1..MaxRois : WF_vars(Worker(w))

\* ------------------------------------------------ the histogram normalizer
\* Values a count takes in the histograms offered to converge_to_zero_dvh.
CountValues == {0, 1}
\* Spacings of the bin centers in the histograms offered.
BinSteps == {1, 10}

\* The DVH objects offered: bincenters and counts of one length, the bin
\* centers evenly spaced from 0.
Histograms ==
    {[bincenters |-> [k \in 1..n |-> (k - 1) * step], counts |-> c] :
        <<n, step, c>> \in
            {t \in (0..MaxBins) \X BinSteps \X
                     UNION {[1..m -> CountValues] : m \in 0..MaxBins} :
                Len(t[3]) = t[1]}}

\* s[-1]
Last(s) == s[Len(s)]

\* A padding one entry short, and a padding of ones.
zeros_short == <<0, 0>>
zeros_ones == <<1, 1, 1>>

\* np.zeros(3), line 103.
zeros == <<0, 0, 0>>

\* Lines 111-113: tmp_bincenters holds dvh.bincenters[-1]+i for i in range(3).
tmp_bincenters(bincenters) == [i \in 1..3 |-> Last(bincenters) + (i - 1)]

\* Lines 110-127 for one histogram with non-empty bincenters and counts: the
\* 'bincenters' and 'counts' stored under res[roi].
Converged(dvh) ==
    IF Last(dvh.counts) # 0
        THEN [bincenters |-> dvh.bincenters \o tmp_bincenters(dvh.bincenters),
              counts |-> dvh.counts \o zeros]
        ELSE [bincenters |-> dvh.bincenters, counts |-> dvh.counts]

\* dvh.counts[-1] (line 110) and dvh.bincenters[-1] (line 113) raise IndexError
\* on an empty array.
ConvergeRaises(dvh) ==
    \/ dvh.counts = <<>>
    \/ (Last(dvh.counts) # 0 /\ dvh.bincenters = <<>>)

InitNormalizer ==
    /\ \E keys \in SUBSET (1..MaxNormRois) : n_in \in [keys -> Histograms]
    /\ n_todo = DOMAIN n_in
    /\ res = EmptyDict
    /\ n_pc = "loop"
    /\ n_pass = 1
    /\ res1 = EmptyDict
    /\ EngineIdle
    /\ CsvIdle

\* One iteration of "for roi in dict_dvh" (lines 105-127).
ConvergeIter ==
    /\ n_pc = "loop"
    /\ \E roi \in n_todo :
        /\ n_todo' = n_todo \ {roi}
        /\ IF ConvergeRaises(n_in[roi])
              THEN /\ n_pc' = "raised"
                   /\ res' = DictUpdate(res, roi :> EmptyDict)
              ELSE /\ n_pc' = n_pc
                   /\ res' = DictUpdate(res, roi :> Converged(n_in[roi]))
    /\ UNCHANGED <<n_in, n_pass, res1>>
    /\ UNCHANGED <<engineVars, csvVars>>

\* Line 129: return res.
ConvergeReturn ==
    /\ n_pc = "loop"
    /\ n_todo = {}
    /\ n_pc' = "done"
    /\ UNCHANGED <<n_in, n_todo, res, n_pass, res1>>
    /\ UNCHANGED <<engineVars, csvVars>>

\* The transform is applied again, to the bin centers and counts it returned.
ConvergeAgain ==
    /\ n_pc = "done"
    /\ n_pass = 1
    /\ n_in' = res
    /\ res1' = res
    /\ n_todo' = DOMAIN res
    /\ res' = EmptyDict
    /\ n_pass' = 2
    /\ n_pc' = "loop"
    /\ UNCHANGED <<engineVars, csvVars>>

NextNormalizer ==
    \/ ConvergeIter
    \/ ConvergeReturn
    \/ ConvergeAgain

SpecNormalizer == InitNormalizer /\ [][NextNormalizer]_vars

\* ---------------------------------------------------- the tabular exporter
\* Cells of a row or of the table: a string, a number (in thousandths), or
\* the missing value pandas puts where a row has no entry.
Str(s) == <<"str", s>>
Num(n) == <<"num", n>>
NaN == <<"nan">>

\* The patient_id argument.
patient_id == "patient"

\* relative_volume.counts of a histogram with n entries: percentages of the
\* volume falling from 100, in thousandths.
RelativeVolume(n) == [k \in 1..n |-> ((n - (k - 1)) * 100000) \div n]

\* The DVH object offered to dvh2csv under key roi, with n entries in
\* relative_volume.counts.
CsvHistogram(roi, n) ==
    [name |-> "roi" \o ToString(roi), volume |-> 12345 * roi,
     dose |-> RelativeVolume(n)]

\* range(0, n, 10), line 162 and line 171.
Range10(n) == [j \in 1..((n + 9) \div 10) |-> (j - 1) * 10]

\* round(2) of a non-negative number held in thousandths: to the nearest
\* hundredth, a half to the even one.
Round2(v) ==
    LET q == v \div 10
        r == v % 10
    IN  IF r < 5 THEN q * 10
        ELSE IF r > 5 THEN (q + 1) * 10
        ELSE IF q % 2 = 0 THEN q * 10 ELSE (q + 1) * 10

\* An update of the maximum that keeps the latest index.
UpdateMaxLatest(m, i) == i

\* Lines 166-167: if i > max_roi_dose: max_roi_dose = i.
UpdateMax(m, i) == IF i > m THEN i ELSE m

\* max_roi_dose after the inner loop (lines 162-167) has visited the indices
\* idx in order, starting from m.
RECURSIVE MaxAfter(_, _)
MaxAfter(m, idx) ==
    IF idx = <<>> THEN m ELSE MaxAfter(UpdateMax(m, Head(idx)), Tail(idx))

\* Lines 153-163: dvh_roi_list for one histogram.
RoiRow(dvh) ==
    <<Str(patient_id), Str(dvh.name), Num(dvh.volume)>>
        \o [j \in 1..Len(Range10(Len(dvh.dose))) |->
                Num(dvh.dose[Range10(Len(dvh.dose))[j] + 1])]

InitExporter ==
    /\ \E keys \in SUBSET (1..MaxCsvRois) :
        /\ \E len \in [keys -> 0..MaxDoseLen] :
                c_in = [r \in keys |-> CsvHistogram(r, len[r])]
        /\ c_todo \in Orders(keys)
    /\ dvh_csv_list = <<>>
    /\ max_roi_dose = 0
    /\ csv_header = <<"Patient ID", "ROI", "Volume (mL)">>
    /\ table = <<>>
    /\ c_pc = "loop"
    /\ EngineIdle
    /\ NormIdle

\* One iteration of "for i in dict_dvh" (lines 152-169).
ExportRow ==
    /\ c_pc = "loop"
    /\ c_todo # <<>>
    /\ LET dvh == c_in[Head(c_todo)] IN
        /\ dvh_csv_list' = Append(dvh_csv_list, RoiRow(dvh))
        /\ max_roi_dose' = MaxAfter(max_roi_dose, Range10(Len(dvh.dose)))
    /\ c_todo' = Tail(c_todo)
    /\ UNCHANGED <<c_in, csv_header, table, c_pc>>
    /\ UNCHANGED <<engineVars, normVars>>

\* Lines 171-172: one '<i>cGy' column for i in range(0, max_roi_dose + 1, 10).
ExportHeader ==
    /\ c_pc = "loop"
    /\ c_todo = <<>>
    /\ csv_header' = csv_header \o
            [j \in 1..Len(Range10(max_roi_dose + 1)) |->
                ToString(Range10(max_roi_dose + 1)[j]) \o "cGy"]
    /\ c_pc' = "frame"
    /\ UNCHANGED <<c_in, c_todo, dvh_csv_list, max_roi_dose, table>>
    /\ UNCHANGED <<engineVars, normVars>>

\* The longest row of a list of rows.
RECURSIVE Widest(_)
Widest(rows) ==
    IF rows = <<>> THEN 0
    ELSE LET w == Widest(Tail(rows)) IN
         IF Len(Head(rows)) > w THEN Len(Head(rows)) ELSE w

\* pd.DataFrame(rows, columns=header), line 175: rows shorter than the
\* longest one are filled with missing values; with at least one row, a
\* longest row that has not exactly one cell per column raises ValueError.
FrameRaises(rows, header) == rows # <<>> /\ Widest(rows) # Len(header)

DataFrame(rows, header) ==
    [r \in 1..Len(rows) |->
        [c \in 1..Len(header) |-> IF c <= Len(rows[r]) THEN rows[r][c] ELSE NaN]]

\* .round(2), line 175: numbers are rounded, other cells kept.
Rounded(frame) ==
    [r \in 1..Len(frame) |->
        [c \in 1..Len(frame[r]) |->
            IF frame[r][c][1] = "num" THEN Num(Round2(frame[r][c][2])) ELSE frame[r][c]]]

\* fillna(0.0, inplace=True), line 177.
FillNa(frame) ==
    [r \in 1..Len(frame) |->
        [c \in 1..Len(frame[r]) |->
            IF frame[r][c][1] = "nan" THEN Num(0) ELSE frame[r][c]]]

\* Lines 175-180: the frame is built, rounded, filled, indexed by its first
\* column and written with that column first.
ExportWrite ==
    /\ c_pc = "frame"
    /\ IF FrameRaises(dvh_csv_list, csv_header)
          THEN /\ c_pc' = "raised"
               /\ table' = table
          ELSE /\ c_pc' = "done"
               /\ table' = FillNa(Rounded(DataFrame(dvh_csv_list, csv_header)))
    /\ UNCHANGED <<c_in, c_todo, dvh_csv_list, max_roi_dose, csv_header>>
    /\ UNCHANGED <<engineVars, normVars>>

NextExporter ==
    \/ ExportRow
    \/ ExportHeader
    \/ ExportWrite

SpecExporter == InitExporter /\ [][NextExporter]_vars

\* ------------------------------------------------- claims about calc_dvhs
Terminated(w) == wstate[w] \in {"exited", "failed"}

\* The histogram the process created for ROI r computes.
HistogramFor(r) ==
    LET a == ProcessArgs(r, dose_limit) IN get_dvh(a.rtss, a.dose, a.roi, a.dose_limit)

\* C1: when calc_dvhs returns (which it does only when every get_dvh call
\* succeeded), the returned mapping has exactly N keys and its key set is the
\* requested ROI id set, under every interleaving.
C1_KeysAreRequested ==
    pc = "returned" =>
        /\ raising = {}
        /\ DOMAIN dict_dvh = dict_roi
        /\ Cardinality(DOMAIN dict_dvh) = Len(roi_list)

\* C1 witness: calc_dvhs has returned for two ROIs that arrived in an order
\* other than the order they were started in.
C1_Witness ==
    /\ pc = "returned"
    /\ Cardinality(dict_roi) >= 2
    /\ arrived # roi_list

\* C2: the returned mapping does not depend on the iteration order of the
\* input nor on the order of arrival in the queue: each requested ROI id is
\* mapped to the histogram computed for that id.
C2_OrderIndependent ==
    pc = "returned" => dict_dvh = [r \in dict_roi |-> HistogramFor(r)]

\* C2 witness: a return where the input is not iterated in ascending order
\* and the first ROI started is not the first to arrive.
C2_Witness ==
    /\ pc = "returned"
    /\ Len(roi_list) >= 2
    /\ roi_list[1] > roi_list[2]
    /\ arrived[1] # roi_list[1]

\* C3 (as claimed): every histogram in the returned mapping is get_dvh
\* applied to the ROI id and the dose limit given to calc_dvhs.
C3_DoseLimitApplied ==
    pc = "returned" =>
        \A r \in DOMAIN dict_dvh :
            dict_dvh[r] = get_dvh("rtss", "rtdose", r, dose_limit)

\* C9, safety part: a failed worker has deposited nothing, and when some
\* get_dvh call raises the coordinator never leaves the receive loop.
C9_NoPartialReturn ==
    /\ \A w \in DOMAIN wstate : wstate[w] = "failed" => nput[w] = 0
    /\ raising # {} => pc \in {"list", "start", "get"}

\* The coordinator is blocked in queue.get(): receives are still due and
\* the queue is empty.
BlockedInGet == pc = "get" /\ nget < Len(processes) /\ queue = <<>>

\* C9: a worker whose computation raises deposits nothing, and when at least
\* one worker fails calc_dvhs never returns: the coordinator ends up blocked
\* in queue.get() forever.
C9_FailureBlocksForever ==
    /\ []C9_NoPartialReturn
    /\ (raising # {}) ~> []BlockedInGet

\* C9 witness: a worker has failed, every other worker has deposited and
\* ended, the coordinator holds a strict, non-empty subset of the results and
\* is blocked in queue.get().
C9_Witness ==
    /\ BlockedInGet
    /\ \E w \in DOMAIN wstate : wstate[w] = "failed"
    /\ \A w \in DOMAIN wstate : Terminated(w)
    /\ DOMAIN dict_dvh # {}
    /\ DOMAIN dict_dvh # dict_roi

\* calc_dvhs has returned with every worker ended and the queue drained.
ReturnedClean ==
    /\ pc = "returned"
    /\ \A w \in DOMAIN wstate : Terminated(w)
    /\ Len(wstate) = Len(roi_list)
    /\ queue = <<>>

\* The state invariants of the gather-then-join protocol.
C10_Protocol ==
    /\ \A w \in DOMAIN nput : nput[w] <= 1
    /\ nget <= Len(roi_list)
    /\ pc \in {"list", "start"} => nget = 0
    /\ pc \in {"join", "returned"} => nget = Len(roi_list)
    /\ njoin > 0 => pc \in {"join", "returned"}
    /\ pc = "returned" => ReturnedClean

\* C10: each worker deposits at most once, only the coordinator's receive
\* takes from the queue, the coordinator receives exactly N times and waits
\* for termination only after the N-th receive, and when no computation
\* fails calc_dvhs eventually returns with every worker ended and the queue
\* empty.
C10_GatherThenJoin ==
    /\ []C10_Protocol
    /\ [][Len(queue') < Len(queue) => (pc = "get" /\ nget' = nget + 1)]_vars
    /\ (raising = {}) ~> ReturnedClean

\* C10 witness: a fault-free run of two ROIs has returned.
C10_Witness ==
    /\ ReturnedClean
    /\ Len(roi_list) >= 2
    /\ nget = Len(roi_list)
    /\ njoin = Len(roi_list)

\* ------------------------------------- claims about converge_to_zero_dvh
\* The first application has returned.
FirstPassDone == n_pass = 1 /\ n_pc = "done"

\* C4 (as claimed): a histogram whose last count is zero is returned
\* unchanged; any other gets the bin centers last+1, last+2, last+3 and three
\* zero counts appended, its existing entries unchanged.
C4_AppendsNextThreeCenters ==
    FirstPassDone =>
        \A roi \in DOMAIN n_in :
            LET dvh == n_in[roi]
                last == Last(dvh.bincenters)
            IN  IF Last(dvh.counts) = 0
                    THEN /\ res[roi].bincenters = dvh.bincenters
                         /\ res[roi].counts = dvh.counts
                    ELSE /\ res[roi].bincenters =
                                dvh.bincenters \o <<last + 1, last + 2, last + 3>>
                         /\ res[roi].counts = dvh.counts \o <<0, 0, 0>>

\* C5: for histograms with non-empty counts and as many bin centers as
\* counts, the output has the keys of the input and every output entry ends
\* in a zero count and has as many bin centers as counts.
C5_NormalizerInvariant ==
    (/\ FirstPassDone
     /\ \A roi \in DOMAIN n_in :
            /\ n_in[roi].counts # <<>>
            /\ Len(n_in[roi].bincenters) = Len(n_in[roi].counts))
    => /\ DOMAIN res = DOMAIN n_in
       /\ \A roi \in DOMAIN res :
            /\ Last(res[roi].counts) = 0
            /\ Len(res[roi].bincenters) = Len(res[roi].counts)

\* C5 witness: the first application has returned and extended a histogram.
C5_Witness ==
    /\ FirstPassDone
    /\ \E roi \in DOMAIN n_in :
        /\ n_in[roi].counts # <<>>
        /\ Last(n_in[roi].counts) # 0
        /\ Len(res[roi].counts) > Len(n_in[roi].counts)

\* C6: applying the transform to its own output returns the bin centers and
\* counts of the first application.
C6_Idempotent ==
    (n_pass = 2 /\ n_pc = "done") => res = res1

\* C6 witness: the second application has returned, over a histogram that
\* the first application extended.
C6_Witness ==
    /\ n_pass = 2
    /\ n_pc = "done"
    /\ \E roi \in DOMAIN res : Len(res[roi].counts) > MaxBins

\* --------------------------------------------------- claims about dvh2csv
\* The indices range(0, len(dose), 10) samples from the histogram under roi.
Sampled(roi) == {i \in 0..(Len(c_in[roi].dose) - 1) : i % 10 = 0}

AllSampled == UNION {Sampled(roi) : roi \in DOMAIN c_in}

\* C7 (as claimed): for every collection, lengths 0 included, a table is
\* written in which every row has one cell per header column, no row carries
\* more sampled values than there are dose columns, and every dose cell its
\* ROI did not supply is 0.0.
C7_RectangularZeroPadded ==
    c_pc \in {"done", "raised"} =>
        /\ c_pc = "done"
        /\ Len(table) = Len(dvh_csv_list)
        /\ \A r \in DOMAIN table :
            /\ Len(table[r]) = Len(csv_header)
            /\ Len(dvh_csv_list[r]) <= Len(csv_header)
            /\ \A c \in DOMAIN table[r] :
                c > Len(dvh_csv_list[r]) => table[r][c] = Num(0)

\* C8: when some index is sampled, the header is the three fixed columns
\* followed by one '<k>cGy' column for each multiple of 10 from 0 to the
\* largest index sampled over all ROIs, whatever the order of iteration.
C8_HeaderFromWidest ==
    (c_pc \in {"frame", "done", "raised"} /\ AllSampled # {}) =>
        LET M == CHOOSE m \in AllSampled : \A i \in AllSampled : i <= m IN
        csv_header =
            <<"Patient ID", "ROI", "Volume (mL)">>
                \o [j \in 1..(M \div 10 + 1) |-> ToString((j - 1) * 10) \o "cGy"]

\* C8 witness: the table is written for two ROIs of which the one iterated
\* first is the wider, and the header has the dose columns 0cGy, 10cGy, 20cGy.
C8_Witness ==
    /\ c_pc = "done"
    /\ Len(dvh_csv_list) = 2
    /\ Len(dvh_csv_list[1]) = 6
    /\ Len(dvh_csv_list[2]) = 4
    /\ csv_header = <<"Patient ID", "ROI", "Volume (mL)", "0cGy", "10cGy", "20cGy">>

====
